---- MODULE Spec2Model ----
(***************************************************************************)
(* Model of the recovery_registry contract                                 *)
(* (src/contracts/recovery_registry/src/main.rs).                          *)
(*                                                                         *)
(* The contract keeps all of its state in one host dictionary named "d".   *)
(* The dictionary is modelled as a partial function from keys to values;   *)
(* a key built by format!("<tag>{..}", x) is the tuple <<tag, x>>, and     *)
(* format!("rp{}_{:?}", id, caller) is <<"rp", id, caller>>.  An           *)
(* Option<T> is a sequence of length 0 (None) or 1 (Some(v)).              *)
(*                                                                         *)
(* Every entry point is an operator from the dictionary and the call's     *)
(* arguments to an outcome record                                          *)
(*     [d |-> dictionary as written when the entry point stopped,          *)
(*      w |-> number of dictionary writes it performed,                    *)
(*      err |-> 0 or the ApiError::User code it reverted with,             *)
(*      ret |-> the value passed to runtime::ret, as an Option].           *)
(* The host discards the writes of a reverted invocation (Commit).         *)
(***************************************************************************)
EXTENDS Integers, Sequences, FiniteSets, TLC

VARIABLES d, last, returned

vars == <<d, last, returned>>

----------------------------------------------------------------------------
(* Bounds of the model.                                                    *)

NumIds == 3
NumAccounts == 2
NumGuardians == 2
MaxGuards == 2

Ids == 1..NumIds
Accounts == {a \in Ids : a <= NumAccounts}
Guardians == {g \in Ids : g <= NumGuardians}
GuardLists == UNION {[1..n -> Guardians] : n \in 0..MaxGuards}
Thresholds == 0..(MaxGuards + 1)
PublicKeys == {"K"}
RecoveryIds == 0..(NumAccounts + 1)

----------------------------------------------------------------------------
(* enum Err                                                                *)

NotOwner == 1
AlreadyInit == 2
BadGuardians == 3
BadThreshold == 4
NotGuardian == 5
RecoveryExists == 6
NotFound == 7
AlreadyApproved == 8
NotApproved == 9
NotInit == 10
MissingDict == 11

U8Modulus == 256

----------------------------------------------------------------------------
(* Option, Vec and u8 helpers.                                             *)

None == <<>>
Some(v) == <<v>>
is_some(o) == o # None
unwrap_or(o, dflt) == IF o = None THEN dflt ELSE o[1]

contains(v, x) == \E n \in 1..Len(v) : v[n] = x
push(v, x) == Append(v, x)

(* Faulty variant of retain_ne: the predicate of retain is inverted.       *)
retain_eq(v, x) == SelectSeq(v, LAMBDA r : r = x)

retain_ne(v, x) == SelectSeq(v, LAMBDA r : r # x)

(* u8 addition, wrapping at 2^8 as a release build does (a build with      *)
(* overflow checks traps instead and the host reverts the invocation).     *)
u8_add(x, y) == (x + y) % U8Modulus

----------------------------------------------------------------------------
(* Keyed store adapter.                                                    *)

EmptyDict == [k \in {} |-> None]

read(s, k) == IF k \in DOMAIN s THEN Some(s[k]) ELSE None

dictionary_put(s, k, v) == (k :> v) @@ s

write(st, k, v) == [d |-> dictionary_put(st.d, k, v), w |-> st.w + 1]

Enter(s) == [d |-> s, w |-> 0]

revert(st, e) == [d |-> st.d, w |-> st.w, err |-> e, ret |-> None]

ret(st, v) == [d |-> st.d, w |-> st.w, err |-> 0, ret |-> v]

Commit(s, r) == IF r.err = 0 THEN r.d ELSE s

----------------------------------------------------------------------------
(* init_guardians                                                          *)

(* Faulty variant of add_protected: the account is pushed without the      *)
(* contains test.                                                          *)
RECURSIVE add_protected_unchecked(_, _, _, _)
add_protected_unchecked(st, guards, acc, n) ==
    IF n > Len(guards) THEN st
    ELSE LET key == <<"ga", guards[n]>>
             protected == unwrap_or(read(st.d, key), <<>>)
         IN  add_protected_unchecked(write(st, key, push(protected, acc)), guards, acc, n + 1)

(* One iteration of the loop over the guardians.                           *)
protect(st, guard, acc) ==
    LET key == <<"ga", guard>>
        protected == unwrap_or(read(st.d, key), <<>>)
    IN  IF ~contains(protected, acc)
        THEN write(st, key, push(protected, acc))
        ELSE st

(* The iterations for guards[lo..hi], in list order: the first half of the *)
(* range is evaluated, then the second half from its result (halving       *)
(* keeps the evaluation shallow for long lists).                           *)
RECURSIVE add_protected_range(_, _, _, _, _)
add_protected_range(st, guards, acc, lo, hi) ==
    IF lo > hi THEN st
    ELSE IF lo = hi THEN protect(st, guards[lo], acc)
    ELSE LET mid == (lo + hi) \div 2
         IN  CHOOSE r \in {add_protected_range(x, guards, acc, mid + 1, hi) :
                     x \in {add_protected_range(st, guards, acc, lo, mid)}} : TRUE

add_protected(st, guards, acc, n) == add_protected_range(st, guards, acc, n, Len(guards))

(* Faulty variant of init_guardians: the AlreadyInit test is made after    *)
(* the guardian list, threshold and flag are written.                      *)
init_guardians_late_check(s, caller, acc, guards, thresh) ==
    LET st0 == Enter(s)
        k == <<"i", acc>>
    IN  IF caller # acc THEN revert(st0, NotOwner)
        ELSE IF Len(guards) < 2 THEN revert(st0, BadGuardians)
        ELSE IF thresh = 0 \/ thresh > Len(guards) THEN revert(st0, BadThreshold)
        ELSE LET st1 == write(st0, <<"g", acc>>, guards)
                 st2 == write(st1, <<"t", acc>>, thresh)
                 st3 == write(st2, k, TRUE)
             IN  IF unwrap_or(read(st0.d, k), FALSE) THEN revert(st3, AlreadyInit)
                 ELSE ret(add_protected(st3, guards, acc, 1), None)

(* Faulty variant of init_guardians: the threshold is only tested for 0.   *)
init_guardians_no_upper_bound(s, caller, acc, guards, thresh) ==
    LET st0 == Enter(s)
        k == <<"i", acc>>
    IN  IF caller # acc THEN revert(st0, NotOwner)
        ELSE IF Len(guards) < 2 THEN revert(st0, BadGuardians)
        ELSE IF thresh = 0 THEN revert(st0, BadThreshold)
        ELSE IF unwrap_or(read(st0.d, k), FALSE) THEN revert(st0, AlreadyInit)
        ELSE LET st1 == write(st0, <<"g", acc>>, guards)
                 st2 == write(st1, <<"t", acc>>, thresh)
                 st3 == write(st2, k, TRUE)
             IN  ret(add_protected(st3, guards, acc, 1), None)

(* Faulty variant of init_guardians: the threshold is tested before the    *)
(* number of guardians.                                                    *)
init_guardians_threshold_first(s, caller, acc, guards, thresh) ==
    LET st0 == Enter(s)
        k == <<"i", acc>>
    IN  IF caller # acc THEN revert(st0, NotOwner)
        ELSE IF thresh = 0 \/ thresh > Len(guards) THEN revert(st0, BadThreshold)
        ELSE IF Len(guards) < 2 THEN revert(st0, BadGuardians)
        ELSE IF unwrap_or(read(st0.d, k), FALSE) THEN revert(st0, AlreadyInit)
        ELSE LET st1 == write(st0, <<"g", acc>>, guards)
                 st2 == write(st1, <<"t", acc>>, thresh)
                 st3 == write(st2, k, TRUE)
             IN  ret(add_protected(st3, guards, acc, 1), None)

(* Faulty variant of init_guardians: the AlreadyInit test is missing.       *)
init_guardians_no_init_check(s, caller, acc, guards, thresh) ==
    LET st0 == Enter(s)
        k == <<"i", acc>>
    IN  IF caller # acc THEN revert(st0, NotOwner)
        ELSE IF Len(guards) < 2 THEN revert(st0, BadGuardians)
        ELSE IF thresh = 0 \/ thresh > Len(guards) THEN revert(st0, BadThreshold)
        ELSE LET st1 == write(st0, <<"g", acc>>, guards)
                 st2 == write(st1, <<"t", acc>>, thresh)
                 st3 == write(st2, k, TRUE)
             IN  ret(add_protected(st3, guards, acc, 1), None)

init_guardians(s, caller, acc, guards, thresh) ==
    LET st0 == Enter(s)
        k == <<"i", acc>>
    IN  IF caller # acc THEN revert(st0, NotOwner)
        ELSE IF Len(guards) < 2 THEN revert(st0, BadGuardians)
        ELSE IF thresh = 0 \/ thresh > Len(guards) THEN revert(st0, BadThreshold)
        ELSE IF unwrap_or(read(st0.d, k), FALSE) THEN revert(st0, AlreadyInit)
        ELSE LET st1 == write(st0, <<"g", acc>>, guards)
                 st2 == write(st1, <<"t", acc>>, thresh)
                 st3 == write(st2, k, TRUE)
             IN  ret(add_protected(st3, guards, acc, 1), None)

----------------------------------------------------------------------------
(* start_recovery                                                          *)

(* Faulty variants of next_id: the counter is read under another key; the  *)
(* increment is missing.                                                   *)
next_id_wrong_key(s) == unwrap_or(read(s, <<"n">>), 0) + 1

next_id_no_increment(s) == unwrap_or(read(s, <<"c">>), 0)

next_id(s) == unwrap_or(read(s, <<"c">>), 0) + 1

(* Faulty variants of has_open_recovery: the marker is never found; the    *)
(* marker of a finalized request is ignored.                               *)
has_open_recovery_never(s, acc) == FALSE

has_open_recovery_unless_finalized(s, acc) ==
    /\ is_some(read(s, <<"a", acc>>))
    /\ ~unwrap_or(read(s, <<"rf", read(s, <<"a", acc>>)[1]>>), FALSE)

has_open_recovery(s, acc) == is_some(read(s, <<"a", acc>>))

(* One iteration of the loop over the guardians.                           *)
list_recovery(st, guard, id) ==
    LET key == <<"gr", guard>>
        recoveries == unwrap_or(read(st.d, key), <<>>)
    IN  IF ~contains(recoveries, id)
        THEN write(st, key, push(recoveries, id))
        ELSE st

RECURSIVE add_recovery_range(_, _, _, _, _)
add_recovery_range(st, guards, id, lo, hi) ==
    IF lo > hi THEN st
    ELSE IF lo = hi THEN list_recovery(st, guards[lo], id)
    ELSE LET mid == (lo + hi) \div 2
         IN  CHOOSE r \in {add_recovery_range(x, guards, id, mid + 1, hi) :
                     x \in {add_recovery_range(st, guards, id, lo, mid)}} : TRUE

add_recovery(st, guards, id, n) == add_recovery_range(st, guards, id, n, Len(guards))

start_recovery(s, acc, nk) ==
    LET st0 == Enter(s)
    IN  IF ~unwrap_or(read(st0.d, <<"i", acc>>), FALSE) THEN revert(st0, NotInit)
        ELSE IF has_open_recovery(st0.d, acc) THEN revert(st0, RecoveryExists)
        ELSE LET id == next_id(st0.d)
                 st1 == write(st0, <<"c">>, id)
                 st2 == write(st1, <<"ra", id>>, acc)
                 st3 == write(st2, <<"rk", id>>, nk)
                 st4 == write(st3, <<"rc", id>>, 0)
                 st5 == write(st4, <<"ro", id>>, FALSE)
                 st6 == write(st5, <<"a", acc>>, id)
                 guards == unwrap_or(read(st6.d, <<"g", acc>>), <<>>)
             IN  ret(add_recovery(st6, guards, id, 1), Some(id))

----------------------------------------------------------------------------
(* approve                                                                 *)

threshold_reached(cnt, thresh) == cnt >= thresh

(* Faulty variant of is_guardian: every caller passes.                     *)
is_guardian_anyone(guards, caller) == TRUE

is_guardian(guards, caller) == contains(guards, caller)

has_approved(s, id, caller) == unwrap_or(read(s, <<"rp", id, caller>>), FALSE)

approve(s, caller, id) ==
    LET st0 == Enter(s)
        oacc == read(st0.d, <<"ra", id>>)
    IN  IF oacc = None THEN revert(st0, NotFound)
        ELSE LET acc == oacc[1]
                 oguards == read(st0.d, <<"g", acc>>)
             IN  IF oguards = None THEN revert(st0, NotGuardian)
                 ELSE IF ~is_guardian(oguards[1], caller) THEN revert(st0, NotGuardian)
                 ELSE LET ak == <<"rp", id, caller>>
                      IN  IF has_approved(st0.d, id, caller)
                          THEN revert(st0, AlreadyApproved)
                          ELSE LET st1 == write(st0, ak, TRUE)
                                   cnt == u8_add(unwrap_or(read(st1.d, <<"rc", id>>), 0), 1)
                                   st2 == write(st1, <<"rc", id>>, cnt)
                                   thresh == unwrap_or(read(st2.d, <<"t", acc>>), 2)
                               IN  IF threshold_reached(cnt, thresh)
                                   THEN ret(write(st2, <<"ro", id>>, TRUE), None)
                                   ELSE ret(st2, None)

(* approve as a build with overflow checks runs it: the addition of line   *)
(* 133 panics when the counter is at its maximum, after the approval mark  *)
(* was written; the invocation traps and the host discards its writes.     *)
Trap == 0 - 1

approve_checked(s, caller, id) ==
    LET r == approve(s, caller, id)
    IN  IF r.err = 0 /\ unwrap_or(read(s, <<"rc", id>>), 0) + 1 >= U8Modulus
        THEN revert(write(Enter(s), <<"rp", id, caller>>, TRUE), Trap)
        ELSE r

(* The outcomes of approve that a build of the contract can produce.       *)
approve_outcomes(s, caller, id) ==
    {approve(s, caller, id), approve_checked(s, caller, id)}

----------------------------------------------------------------------------
(* is_approved and finalize                                                *)

is_approved(s, id) == unwrap_or(read(s, <<"ro", id>>), FALSE)

(* One iteration of the loop over the guardians.                           *)
unlist_recovery(st, guard, id) ==
    LET key == <<"gr", guard>>
        recoveries == unwrap_or(read(st.d, key), <<>>)
    IN  write(st, key, retain_ne(recoveries, id))

RECURSIVE remove_recovery_range(_, _, _, _, _)
remove_recovery_range(st, guards, id, lo, hi) ==
    IF lo > hi THEN st
    ELSE IF lo = hi THEN unlist_recovery(st, guards[lo], id)
    ELSE LET mid == (lo + hi) \div 2
         IN  CHOOSE r \in {remove_recovery_range(x, guards, id, mid + 1, hi) :
                     x \in {remove_recovery_range(st, guards, id, lo, mid)}} : TRUE

remove_recovery(st, guards, id, n) == remove_recovery_range(st, guards, id, n, Len(guards))

(* Faulty variant of finalize: the request is looked up before the         *)
(* approved flag is tested.                                                *)
finalize_lookup_first(s, id) ==
    LET st0 == Enter(s)
        oacc == read(st0.d, <<"ra", id>>)
    IN  IF oacc = None THEN revert(st0, NotFound)
        ELSE IF ~unwrap_or(read(st0.d, <<"ro", id>>), FALSE) THEN revert(st0, NotApproved)
        ELSE LET guards == unwrap_or(read(st0.d, <<"g", oacc[1]>>), <<>>)
                 st1 == remove_recovery(st0, guards, id, 1)
             IN  ret(write(st1, <<"rf", id>>, TRUE), None)

(* Faulty variants of finalize: the open-recovery marker of the target     *)
(* account is replaced as well; a request that is already finalized is     *)
(* rejected.                                                               *)
finalize_clears_marker(s, id) ==
    LET st0 == Enter(s)
    IN  IF ~unwrap_or(read(st0.d, <<"ro", id>>), FALSE) THEN revert(st0, NotApproved)
        ELSE LET oacc == read(st0.d, <<"ra", id>>)
             IN  IF oacc = None THEN revert(st0, NotFound)
                 ELSE LET guards == unwrap_or(read(st0.d, <<"g", oacc[1]>>), <<>>)
                          st1 == remove_recovery(st0, guards, id, 1)
                          st2 == write(st1, <<"a", oacc[1]>>, 0)
                      IN  ret(write(st2, <<"rf", id>>, TRUE), None)

finalize_once(s, id) ==
    LET st0 == Enter(s)
    IN  IF ~unwrap_or(read(st0.d, <<"ro", id>>), FALSE) THEN revert(st0, NotApproved)
        ELSE IF unwrap_or(read(st0.d, <<"rf", id>>), FALSE) THEN revert(st0, NotFound)
        ELSE LET oacc == read(st0.d, <<"ra", id>>)
             IN  IF oacc = None THEN revert(st0, NotFound)
                 ELSE LET guards == unwrap_or(read(st0.d, <<"g", oacc[1]>>), <<>>)
                          st1 == remove_recovery(st0, guards, id, 1)
                      IN  ret(write(st1, <<"rf", id>>, TRUE), None)

finalize(s, id) ==
    LET st0 == Enter(s)
    IN  IF ~unwrap_or(read(st0.d, <<"ro", id>>), FALSE) THEN revert(st0, NotApproved)
        ELSE LET oacc == read(st0.d, <<"ra", id>>)
             IN  IF oacc = None THEN revert(st0, NotFound)
                 ELSE LET guards == unwrap_or(read(st0.d, <<"g", oacc[1]>>), <<>>)
                          st1 == remove_recovery(st0, guards, id, 1)
                      IN  ret(write(st1, <<"rf", id>>, TRUE), None)

----------------------------------------------------------------------------
(* Query entry points.                                                     *)

(* Faulty variant of get_guardians: an absent list reads as empty.          *)
get_guardians_or_empty(s, acc) ==
    ret(Enter(s), Some(unwrap_or(read(s, <<"g", acc>>), <<>>)))

get_guardians(s, acc) ==
    LET g == read(s, <<"g", acc>>)
    IN  IF g = None THEN revert(Enter(s), NotInit) ELSE ret(Enter(s), g)

has_guardians(s, acc) == unwrap_or(read(s, <<"i", acc>>), FALSE)

get_recoveries_for_guardian(s, guardian) == unwrap_or(read(s, <<"gr", guardian>>), <<>>)

get_protected_accounts(s, guardian) == unwrap_or(read(s, <<"ga", guardian>>), <<>>)

----------------------------------------------------------------------------
(* The state machine: one action per state-changing entry point.  `last`   *)
(* records the outcome of the latest invocation, `returned` the ids        *)
(* returned by the successful start_recovery calls, in call order.         *)

Outcome(op, r) == [op |-> op, err |-> r.err, ret |-> r.ret, w |-> r.w]

(* The contract is installed and init_storage has created the empty       *)
(* dictionary; no entry point has been called yet.                         *)
Init ==
    /\ d = EmptyDict
    /\ last = [op |-> "init_storage", err |-> 0, ret |-> None, w |-> 0]
    /\ returned = <<>>

InitGuardians ==
    \E caller \in Ids, acc \in Accounts, guards \in GuardLists, thresh \in Thresholds :
        LET r == init_guardians(d, caller, acc, guards, thresh)
        IN  /\ d' = Commit(d, r)
            /\ last' = Outcome("init_guardians", r)
            /\ returned' = returned

StartRecovery ==
    \E acc \in Accounts, nk \in PublicKeys :
        LET r == start_recovery(d, acc, nk)
        IN  /\ d' = Commit(d, r)
            /\ last' = Outcome("start_recovery", r)
            /\ returned' = IF r.err = 0 THEN Append(returned, r.ret[1]) ELSE returned

Approve ==
    \E caller \in Ids, id \in RecoveryIds :
        \E r \in approve_outcomes(d, caller, id) :
            /\ d' = Commit(d, r)
            /\ last' = Outcome("approve", r)
            /\ returned' = returned

Finalize ==
    \E id \in RecoveryIds :
        LET r == finalize(d, id)
        IN  /\ d' = Commit(d, r)
            /\ last' = Outcome("finalize", r)
            /\ returned' = returned

Next == InitGuardians \/ StartRecovery \/ Approve \/ Finalize

Spec == Init /\ [][Next]_vars

----------------------------------------------------------------------------
(* The query entry points as actions.  They leave the dictionary as it is, *)
(* so SpecQueries reaches the same dictionaries as Spec.                   *)

IsApproved ==
    \E id \in RecoveryIds :
        LET r == ret(Enter(d), Some(is_approved(d, id)))
        IN  /\ d' = Commit(d, r)
            /\ last' = Outcome("is_approved", r)
            /\ returned' = returned

HasGuardians ==
    \E acc \in Ids :
        LET r == ret(Enter(d), Some(has_guardians(d, acc)))
        IN  /\ d' = Commit(d, r)
            /\ last' = Outcome("has_guardians", r)
            /\ returned' = returned

GetGuardians ==
    \E acc \in Ids :
        LET r == get_guardians(d, acc)
        IN  /\ d' = Commit(d, r)
            /\ last' = Outcome("get_guardians", r)
            /\ returned' = returned

GetRecoveriesForGuardian ==
    \E guardian \in Ids :
        LET r == ret(Enter(d), Some(get_recoveries_for_guardian(d, guardian)))
        IN  /\ d' = Commit(d, r)
            /\ last' = Outcome("get_recoveries_for_guardian", r)
            /\ returned' = returned

GetProtectedAccounts ==
    \E guardian \in Ids :
        LET r == ret(Enter(d), Some(get_protected_accounts(d, guardian)))
        IN  /\ d' = Commit(d, r)
            /\ last' = Outcome("get_protected_accounts", r)
            /\ returned' = returned

NextQueries ==
    \/ Next
    \/ IsApproved
    \/ HasGuardians
    \/ GetGuardians
    \/ GetRecoveriesForGuardian
    \/ GetProtectedAccounts

SpecQueries == Init /\ [][NextQueries]_vars

----------------------------------------------------------------------------
(* One account with as many distinct guardians as the u8 counter has       *)
(* values.  The account registers them, a recovery is started, and the     *)
(* guardians approve in list order; every behaviour of SpecWide is a       *)
(* behaviour of the contract.                                              *)

WideGuards == U8Modulus
WideList == [n \in 1..WideGuards |-> n]
WideAccount == 1
WideThresholds == {U8Modulus - 1}

next_approver(s, id) ==
    {g \in 1..WideGuards :
        /\ ~has_approved(s, id, g)
        /\ \A h \in 1..(g - 1) : has_approved(s, id, h)}

WideInitGuardians ==
    \E thresh \in WideThresholds :
        LET r == init_guardians(d, WideAccount, WideAccount, WideList, thresh)
        IN  /\ d' = Commit(d, r)
            /\ last' = Outcome("init_guardians", r)
            /\ returned' = returned

WideStartRecovery ==
    \E nk \in PublicKeys :
        LET r == start_recovery(d, WideAccount, nk)
        IN  /\ d' = Commit(d, r)
            /\ last' = Outcome("start_recovery", r)
            /\ returned' = IF r.err = 0 THEN Append(returned, r.ret[1]) ELSE returned

WideApprove ==
    \E id \in {returned[k] : k \in 1..Len(returned)} :
        \E caller \in next_approver(d, id) :
            \E r \in approve_outcomes(d, caller, id) :
                /\ d' = Commit(d, r)
                /\ last' = Outcome("approve", r)
                /\ returned' = returned

WideFinalize ==
    \E id \in {returned[k] : k \in 1..Len(returned)} :
        LET r == finalize(d, id)
        IN  /\ d' = Commit(d, r)
            /\ last' = Outcome("finalize", r)
            /\ returned' = returned

NextWide == WideInitGuardians \/ WideStartRecovery \/ WideApprove \/ WideFinalize

SpecWide == Init /\ [][NextWide]_vars

----------------------------------------------------------------------------
(* Fields of the stored records, as the claims name them.                  *)

Range(v) == {v[n] : n \in 1..Len(v)}
NoDuplicates(v) == \A m, n \in 1..Len(v) : v[m] = v[n] => m = n

target_account(s, id) == unwrap_or(read(s, <<"ra", id>>), 0)
approval_count(s, id) == unwrap_or(read(s, <<"rc", id>>), 0)
is_finalized(s, id) == unwrap_or(read(s, <<"rf", id>>), FALSE)
guardians_of(s, acc) == unwrap_or(read(s, <<"g", acc>>), <<>>)
threshold_of(s, acc) == unwrap_or(read(s, <<"t", acc>>), 2)
approval_marks(s, id) ==
    {k[3] : k \in {x \in DOMAIN s : Len(x) = 3 /\ x[1] = "rp" /\ x[2] = id /\ s[x]}}

Started == Range(returned)

----------------------------------------------------------------------------
(* C1 as stated: for every id created by start_recovery, is_approved(id)   *)
(* is true if and only if approval_count(id) >= the threshold of the       *)
(* request's target account.                                               *)
C1_ApprovedIffThreshold ==
    \A id \in Started :
        is_approved(d, id)
            <=> approval_count(d, id) >= threshold_of(d, target_account(d, id))

(* C2 as stated: approval_count(id) is the number of distinct identities   *)
(* holding an approval mark for id, and every holder of a mark is in the   *)
(* guardian list of the request's target account.                          *)
C2_CountEqualsMarks ==
    \A id \in RecoveryIds :
        /\ approval_count(d, id) = Cardinality(approval_marks(d, id))
        /\ \A g \in approval_marks(d, id) :
               /\ id \in Started
               /\ contains(guardians_of(d, target_account(d, id)), g)

(* C3: get_recoveries_for_guardian(g) holds, without duplicates, exactly   *)
(* the ids that were started, are not finalized, and whose target account  *)
(* lists g as a guardian.                                                  *)
C3_ActiveRecoveriesExact ==
    \A g \in Ids :
        LET recoveries == get_recoveries_for_guardian(d, g)
        IN  /\ NoDuplicates(recoveries)
            /\ Range(recoveries) =
                   {id \in Started :
                        /\ ~is_finalized(d, id)
                        /\ contains(guardians_of(d, target_account(d, id)), g)}

(* C3 witness: one request was finalized while a guardian of its account   *)
(* still has another open request in its list.                             *)
C3_Witness ==
    \E g \in Ids, id \in Started :
        /\ is_finalized(d, id)
        /\ contains(guardians_of(d, target_account(d, id)), g)
        /\ Len(get_recoveries_for_guardian(d, g)) = 1

(* C4: get_protected_accounts(g) holds, without duplicates, exactly the    *)
(* initialized accounts whose guardian list contains g.                    *)
C4_ProtectedAccountsExact ==
    \A g \in Ids :
        LET accounts == get_protected_accounts(d, g)
        IN  /\ NoDuplicates(accounts)
            /\ Range(accounts) =
                   {acc \in Ids :
                        has_guardians(d, acc) /\ contains(guardians_of(d, acc), g)}

(* C4 witness: a guardian that is listed twice by one account protects     *)
(* two accounts.                                                           *)
C4_Witness ==
    \E g \in Ids, acc \in Ids :
        /\ has_guardians(d, acc)
        /\ \E m, n \in 1..Len(guardians_of(d, acc)) :
               m # n /\ guardians_of(d, acc)[m] = g /\ guardians_of(d, acc)[n] = g
        /\ Len(get_protected_accounts(d, g)) = 2

(* C5: an invocation of init_guardians, start_recovery, approve or         *)
(* finalize that fails with an error code leaves the store as it was, and  *)
(* had written nothing when it failed.                                     *)
C5_FailedCallWritesNothing ==
    [][last'.err > 0 => (d' = d /\ last'.w = 0)]_vars

(* C5 witness: init_guardians failed at its last test, AlreadyInit.        *)
C5_Witness ==
    last.op = "init_guardians" /\ last.err = AlreadyInit

(* C6: once is_approved(id) is true it is true in every later state.       *)
C6_ApprovedMonotone ==
    [][\A id \in RecoveryIds : is_approved(d, id) => is_approved(d', id)]_vars

(* C6 witness: a start_recovery succeeded after an earlier request was     *)
(* approved, which is still approved.                                      *)
C6_Witness ==
    /\ last.op = "start_recovery" /\ last.err = 0
    /\ \E id \in Started : id # last.ret[1] /\ is_approved(d, id)

(* C7: approve(id) fails with NotFound when no request with this id        *)
(* exists, with NotGuardian when it exists and the caller is not a         *)
(* guardian of the target account, with AlreadyApproved when the caller    *)
(* is a guardian who already approved; the failed call writes nothing.     *)
C7_ApproveFailures ==
    \A caller \in Ids, id \in RecoveryIds :
        LET r == approve(d, caller, id)
            listed == contains(guardians_of(d, target_account(d, id)), caller)
        IN  /\ id \notin Started => r.err = NotFound
            /\ (id \in Started /\ ~listed) => r.err = NotGuardian
            /\ (id \in Started /\ listed /\ caller \in approval_marks(d, id))
                   => r.err = AlreadyApproved
            /\ r.err # 0 =>
                   /\ r.d = d
                   /\ \A x \in RecoveryIds :
                          /\ approval_count(Commit(d, r), x) = approval_count(d, x)
                          /\ is_approved(Commit(d, r), x) = is_approved(d, x)
                          /\ approval_marks(Commit(d, r), x) = approval_marks(d, x)

(* C7 witness: an approve call was rejected with AlreadyApproved.          *)
C7_Witness ==
    /\ last.op = "approve" /\ last.err = AlreadyApproved
    /\ \E id \in Started : approval_count(d, id) > 0

(* C8: finalize(id) succeeds if and only if is_approved(id) is true at the *)
(* time of the call; in every other case, also for an id never created,    *)
(* it fails with NotApproved.                                              *)
C8_FinalizeIffApproved ==
    \A id \in RecoveryIds :
        LET r == finalize(d, id)
        IN  /\ r.err = 0 <=> is_approved(d, id)
            /\ r.err # 0 => r.err = NotApproved

(* C8 witness: a finalize call failed with NotApproved while a started     *)
(* request exists and an earlier request is finalized.                     *)
C8_Witness ==
    /\ last.op = "finalize" /\ last.err = NotApproved
    /\ \E id \in Started : is_finalized(d, id)
    /\ \E id \in Started : ~is_approved(d, id)

(* C9: the k-th successful start_recovery returns k: ids start at 1, are   *)
(* strictly increasing in call order, and failed calls consume none.       *)
C9_IdsSequential ==
    /\ \A k \in 1..Len(returned) : returned[k] = k
    /\ (last.op = "start_recovery" /\ last.err = 0)
           => last.ret = Some(Len(returned))

(* C9 witness: two start_recovery calls succeeded, for two accounts.       *)
C9_Witness ==
    /\ Len(returned) >= 2
    /\ target_account(d, returned[1]) # target_account(d, returned[2])

(* C10: start_recovery succeeds exactly when the account is initialized    *)
(* and has no open-recovery marker; it fails with NotInit when the account *)
(* is not initialized and with RecoveryExists when it is and a marker is   *)
(* present; on success the new request has approval_count 0 and is not     *)
(* approved.                                                               *)
C10_StartRecoveryOutcome ==
    \A acc \in Ids, nk \in PublicKeys :
        LET r == start_recovery(d, acc, nk)
            marker == \E id \in Started : target_account(d, id) = acc
        IN  /\ r.err = 0 <=> (has_guardians(d, acc) /\ ~marker)
            /\ ~has_guardians(d, acc) => r.err = NotInit
            /\ (has_guardians(d, acc) /\ marker) => r.err = RecoveryExists
            /\ marker <=> is_some(read(d, <<"a", acc>>))
            /\ r.err = 0 =>
                   /\ read(r.d, <<"rc", r.ret[1]>>) = Some(0)
                   /\ read(r.d, <<"ro", r.ret[1]>>) = Some(FALSE)
                   /\ target_account(r.d, r.ret[1]) = acc

(* C10 witness: a start_recovery call was rejected with RecoveryExists.    *)
C10_Witness ==
    last.op = "start_recovery" /\ last.err = RecoveryExists

C12_AnyCallAlreadyInit ==
    \A caller \in Ids, acc \in Ids, guards \in GuardLists, thresh \in Thresholds :
        has_guardians(d, acc)
            => init_guardians(d, caller, acc, guards, thresh).err = AlreadyInit

(* C12 amended: every init_guardians call for an initialized account       *)
(* fails, with AlreadyInit when it passes the owner, guardian-count and    *)
(* threshold tests, and the guardian list, threshold, initialized flag     *)
(* and every protected-accounts list are as before the rejected call.      *)
C12_RepeatedInitRejected ==
    \A caller \in Ids, acc \in Ids, guards \in GuardLists, thresh \in Thresholds :
        LET r == init_guardians(d, caller, acc, guards, thresh)
            after == Commit(d, r)
        IN  has_guardians(d, acc) =>
                /\ r.err # 0
                /\ (caller = acc /\ Len(guards) >= 2 /\ thresh \in 1..Len(guards))
                       => r.err = AlreadyInit
                /\ r.d = d
                /\ \A x \in Ids :
                       /\ read(after, <<"g", x>>) = read(d, <<"g", x>>)
                       /\ read(after, <<"t", x>>) = read(d, <<"t", x>>)
                       /\ read(after, <<"i", x>>) = read(d, <<"i", x>>)
                       /\ get_protected_accounts(after, x) = get_protected_accounts(d, x)

(* C12 witness: init_guardians was rejected with AlreadyInit when every    *)
(* account is initialized.                                                 *)
C12_Witness ==
    /\ last.op = "init_guardians" /\ last.err = AlreadyInit
    /\ \A acc \in Accounts : has_guardians(d, acc)

(* C13: every initialized account has a guardian list of length >= 2 and   *)
(* a threshold between 1 and the length of the list, and once an account   *)
(* is initialized its guardian list and threshold never change.            *)
C13_ConfigWellFormedAndFrozen ==
    /\ [](\A acc \in Ids :
              has_guardians(d, acc) =>
                  /\ is_some(read(d, <<"g", acc>>))
                  /\ is_some(read(d, <<"t", acc>>))
                  /\ Len(guardians_of(d, acc)) >= 2
                  /\ threshold_of(d, acc) >= 1
                  /\ threshold_of(d, acc) <= Len(guardians_of(d, acc)))
    /\ [][\A acc \in Ids :
              has_guardians(d, acc) =>
                  /\ has_guardians(d', acc)
                  /\ read(d', <<"g", acc>>) = read(d, <<"g", acc>>)
                  /\ read(d', <<"t", acc>>) = read(d, <<"t", acc>>)]_vars

(* C13 witness: a finalize succeeded when every account is initialized.    *)
C13_Witness ==
    /\ last.op = "finalize" /\ last.err = 0
    /\ \A acc \in Accounts : has_guardians(d, acc)

(* C14: init_guardians reports the first violated precondition in the      *)
(* order NotOwner, BadGuardians, BadThreshold, AlreadyInit, and succeeds   *)
(* only for the account itself.                                            *)
C14_InitErrorOrder ==
    \A caller \in Ids, acc \in Ids, guards \in GuardLists, thresh \in Thresholds :
        LET r == init_guardians(d, caller, acc, guards, thresh)
            owner == caller = acc
            enough == Len(guards) >= 2
            in_range == thresh \in 1..Len(guards)
        IN  /\ ~owner => r.err = NotOwner
            /\ (owner /\ ~enough) => r.err = BadGuardians
            /\ (owner /\ enough /\ ~in_range) => r.err = BadThreshold
            /\ r.err = AlreadyInit
                   <=> (owner /\ enough /\ in_range /\ has_guardians(d, acc))
            /\ r.err = 0
                   <=> (owner /\ enough /\ in_range /\ ~has_guardians(d, acc))

(* C14 witness: init_guardians was rejected with BadThreshold for an       *)
(* account while another account is initialized.                           *)
C14_Witness ==
    /\ last.op = "init_guardians" /\ last.err = BadThreshold
    /\ \E acc \in Accounts : has_guardians(d, acc)
    /\ \E acc \in Accounts : ~has_guardians(d, acc)

(* C15: the query entry points never change the store; is_approved,        *)
(* has_guardians, get_recoveries_for_guardian and get_protected_accounts   *)
(* never fail, and get_guardians(account) fails, with NotInit, exactly     *)
(* when has_guardians(account) is false.                                   *)
QueryOps ==
    {"is_approved", "has_guardians", "get_guardians",
     "get_recoveries_for_guardian", "get_protected_accounts"}

C15_QueriesReadOnly ==
    /\ [](\A acc \in Ids :
              LET r == get_guardians(d, acc)
              IN  /\ r.err = NotInit <=> ~has_guardians(d, acc)
                  /\ r.err = 0 <=> has_guardians(d, acc)
                  /\ r.d = d
                  /\ r.err = 0 => r.ret = read(d, <<"g", acc>>))
    /\ [][last'.op \in QueryOps =>
              /\ d' = d
              /\ last'.w = 0
              /\ last'.op # "get_guardians" => (last'.err = 0 /\ is_some(last'.ret))
              /\ last'.err \in {0, NotInit}]_vars

(* C15 witness: get_guardians was rejected with NotInit for one account    *)
(* while another account is initialized and has a request.                 *)
C15_Witness ==
    /\ last.op = "get_guardians" /\ last.err = NotInit
    /\ \E acc \in Accounts : has_guardians(d, acc)
    /\ Started # {}

(* C16 as stated: approve(id) by a guardian of the target account who has  *)
(* not yet approved id succeeds and increases approval_count(id) by one,   *)
(* whether or not the request is approved or finalized; it leaves an       *)
(* approved request approved, and no approve call changes an               *)
(* active-recovery list.                                                   *)
C16_UnapprovedGuardianSucceeds ==
    /\ [](\A id \in Started :
              \A caller \in Range(guardians_of(d, target_account(d, id))) :
                  ~has_approved(d, id, caller) =>
                      \A r \in approve_outcomes(d, caller, id) :
                          /\ r.err = 0
                          /\ approval_count(r.d, id) = approval_count(d, id) + 1
                          /\ has_approved(r.d, id, caller)
                          /\ is_approved(d, id) => is_approved(r.d, id))
    /\ [][last'.op = "approve" =>
              \A k \in (DOMAIN d) \cup (DOMAIN d') :
                  k[1] = "gr" => (k \in DOMAIN d /\ k \in DOMAIN d' /\ d'[k] = d[k])]_vars

C18_AllMarksImplyApproved ==
    \A id \in Started :
        Range(guardians_of(d, target_account(d, id))) \subseteq approval_marks(d, id)
            => is_approved(d, id)

(* C19: a finalize(id) that follows a successful finalize(id) with no call *)
(* in between succeeds and leaves the store as the first one left it.      *)
C19_FinalizeIdempotent ==
    \A id \in RecoveryIds :
        LET first == finalize(d, id)
            second == finalize(first.d, id)
        IN  first.err = 0 => (second.err = 0 /\ second.d = first.d)

(* C19 witness: a finalize succeeded, its request is finalized, and        *)
(* another started request is not.                                         *)
C19_Witness ==
    /\ last.op = "finalize" /\ last.err = 0
    /\ \E id \in Started : is_finalized(d, id) /\ finalize(d, id).err = 0
    /\ \E id \in Started : ~is_finalized(d, id)

(* C20 as stated: the approval counter never overflows: approval_count(id) *)
(* is at most the number of distinct guardians of the target account and   *)
(* at most 255, and the increment of an accepted approve never exceeds     *)
(* 255.                                                                    *)
C20_CounterNeverOverflows ==
    \A id \in Started :
        LET guards == guardians_of(d, target_account(d, id))
        IN  /\ approval_count(d, id) <= Cardinality(Range(guards))
            /\ approval_count(d, id) \in 0..(U8Modulus - 1)
            /\ \A caller \in Range(guards) :
                   ~has_approved(d, id, caller)
                       => approval_count(d, id) + 1 <= U8Modulus - 1

====
